---- MODULE Spec2Model ----
(***************************************************************************)
(* Model of the EntityComponentSystem core:                                *)
(*   - SystemManager (src/EntityComponentSystem/src/SystemManager.cpp):    *)
(*     the work-order scheduler, the three per-frame passes and the        *)
(*     work-state mask;                                                    *)
(*   - EntityManager::EntityContainer<T>                                   *)
(*     (src/EntityComponentSystem/include/EntityManager.h): the chunked,   *)
(*     pool-backed entity storage and its teardown;                        *)
(*   - EntityManager (same header): the registry of containers, entity     *)
(*     ids and the id lookup table.                                        *)
(* System type ids, vector indices and Work Order positions are 0-based in *)
(* the code; TLA+ sequences are 1-based, so position p of a C++ vector is  *)
(* element p + 1 of the sequence that models it.                           *)
(***************************************************************************)
EXTENDS Integers, Sequences, FiniteSets, TLC

VARIABLES
    m_SystemDependencyMatrix,   \* [i][j] = TRUE: system i runs after system j
    priority,                   \* ISystem::GetSystemPriority() of each system
    active,                     \* ISystem::IsActive() of each system
    m_SystemWorkOrder,          \* the Work Order (systems named by type id)
    snapshot,                   \* the mask last returned by GetSystemWorkState
    walk,                       \* the per-frame pass in progress, if any
    m_Chunks,                   \* EntityContainer<T>::m_Chunks, front first
    destroyed,                  \* addresses passed to DestroyEntity and not
                                \* handed out by CreateEntity since
    calls,                      \* number of entity calls made so far
    peak,                       \* largest number of entities that were live
                                \* in the container at the same time
    teardown,                   \* what ~EntityContainer did, in order
    m_EntityRegistry,           \* EntityManager: entity type -> container
    m_EntityLUT,                \* EntityManager: entity id -> object
    m_FreeIds,                  \* EntityManager: released ids, newest first
    m_Id,                       \* IEntity::m_Id of the object at each pointer
    failed,                     \* TRUE once an assert has stopped the program
    op                          \* the operation that produced this state

schedVars == <<m_SystemDependencyMatrix, priority, m_SystemWorkOrder>>
frameVars == <<active, snapshot, walk>>
smVars == <<schedVars, frameVars>>
emVars == <<m_EntityRegistry, m_EntityLUT, m_FreeIds, m_Id>>
ecVars == <<m_Chunks, destroyed, calls, peak, teardown, emVars>>
vars == <<schedVars, frameVars, ecVars, failed, op>>

(***************************************************************************)
(* Bounds of the model.                                                    *)
(***************************************************************************)
\* number of registered systems (size of the dependency matrix)
NumSystems == 3
\* largest number of TRUE cells of an initial dependency matrix
MaxEdges == 2
\* std::numeric_limits<SystemPriority>::max(), scaled down
MaxPriority == 2

Systems == 0 .. (NumSystems - 1)
Priorities == 0 .. MaxPriority
Cells == Systems \X Systems

\* LOWEST_SYSTEM_PRIORITY, the smallest value of the unsigned SystemPriority
LOWEST_SYSTEM_PRIORITY == 0

(***************************************************************************)
(* Sequence helpers (std::vector / std::list operations).                  *)
(***************************************************************************)
Back(s) == s[Len(s)]

PopBack(s) == SubSeq(s, 1, Len(s) - 1)

RECURSIVE Reverse(_)
Reverse(s) == IF s = <<>> THEN <<>> ELSE Append(Reverse(Tail(s)), Head(s))

Max(a, b) == IF a >= b THEN a ELSE b

Range(s) == {s[k] : k \in 1 .. Len(s)}

(***************************************************************************)
(* SystemManager::UpdateSystemWorkOrder                                    *)
(***************************************************************************)
RECURSIVE DFS(_, _, _), DFSLoop(_, _, _, _)

\* the for loop of the DFS lambda, from index i on; st = [vs, out] holds
\* VERTEX_STATE and output, both passed by reference in the code
DFSLoop(vertex, i, st, EDGES) ==
    IF i >= NumSystems THEN st
    ELSE IF EDGES[i][vertex] /\ st.vs[i] = 0
         THEN DFSLoop(vertex, i + 1, DFS(i, st, EDGES), EDGES)
         ELSE DFSLoop(vertex, i + 1, st, EDGES)

\* the DFS lambda: mark visited, recurse into every unvisited i with
\* EDGES[i][vertex], mark done, push vertex
DFS(vertex, st, EDGES) ==
    LET s1 == [st EXCEPT !.vs[vertex] = 1]
        s2 == DFSLoop(vertex, 0, s1, EDGES)
    IN  [vs |-> [s2.vs EXCEPT ![vertex] = 2], out |-> Append(s2.out, vertex)]

\* an edge test that follows the dependencies in one direction only
JoinedOneWay(M, i, index) == M[i][index]

\* m_SystemDependencyMatrix[i][index] == true || m_SystemDependencyMatrix[index][i] == true
Joined(M, i, index) == M[i][index] \/ M[index][i]

\* the inner for loop of the flood fill: INDICES positions 0 .. size-1 that are
\* not yet taken and are joined to index by an edge in either direction
RECURSIVE FloodLoop(_, _, _, _, _)
FloodLoop(index, i, INDICES, member, M) ==
    IF i >= Len(INDICES) THEN [INDICES |-> INDICES, member |-> member]
    ELSE IF INDICES[i + 1] # -1 /\ Joined(M, i, index)
         THEN FloodLoop(index, i + 1, [INDICES EXCEPT ![i + 1] = -1],
                        Append(member, i), M)
         ELSE FloodLoop(index, i + 1, INDICES, member, M)

\* the group takes the priority of the member visited last
MemberPriorityLast(prio, index, groupPriority) == prio[index]

\* the priority a member contributes to its group
MemberPriority(prio, index, groupPriority) == Max(prio[index], groupPriority)

\* while (member.empty() == false): one vertex group and its priority
RECURSIVE Flood(_, _, _, _, _, _)
Flood(INDICES, member, group, groupPriority, M, prio) ==
    IF member = <<>>
    THEN [INDICES |-> INDICES, group |-> group, groupPriority |-> groupPriority]
    ELSE LET index == Back(member)
             r == FloodLoop(index, 0, INDICES, PopBack(member), M)
         IN  Flood(r.INDICES, r.member, Append(group, index),
                   MemberPriority(prio, index, groupPriority), M, prio)

\* while (INDICES.empty() == false): VERTEX_GROUPS and GROUP_PRIORITY
RECURSIVE VertexGroups(_, _, _, _, _)
VertexGroups(INDICES, VERTEX_GROUPS, GROUP_PRIORITY, M, prio) ==
    IF INDICES = <<>>
    THEN [VERTEX_GROUPS |-> VERTEX_GROUPS, GROUP_PRIORITY |-> GROUP_PRIORITY]
    ELSE LET index == Back(INDICES)
             rest == PopBack(INDICES)
         IN  IF index = -1
             THEN VertexGroups(rest, VERTEX_GROUPS, GROUP_PRIORITY, M, prio)
             ELSE LET r == Flood(rest, <<index>>, <<>>, LOWEST_SYSTEM_PRIORITY, M, prio)
                  IN  VertexGroups(r.INDICES, Append(VERTEX_GROUPS, r.group),
                                   Append(GROUP_PRIORITY, r.groupPriority), M, prio)

\* the index array 0, 1, ..., NUM_SYSTEMS - 1
IndexArray == [k \in 1 .. NumSystems |-> k - 1]

\* the partitioning step on the current matrix
Partition(M, prio) == VertexGroups(IndexArray, <<>>, <<>>, M, prio)

\* a start test that takes every member of the group for unvisited
StartsDFSAlways(vertex_states, vertex) == TRUE

\* if (vertex_states[g[i]] == 0)
StartsDFS(vertex_states, vertex) == vertex_states[vertex] = 0

\* for (i < g.size()) if (vertex_states[g[i]] == 0) DFS(g[i], ...)
RECURSIVE GroupDFS(_, _, _, _)
GroupDFS(g, k, st, M) ==
    IF k > Len(g) THEN st
    ELSE IF StartsDFS(st.vs, g[k])
         THEN GroupDFS(g, k + 1, DFS(g[k], st, M), M)
         ELSE GroupDFS(g, k + 1, st, M)

\* the postorder left as it is
GroupOrderNotReversed(order) == order

\* std::reverse(order.begin(), order.end())
GroupOrder(order) == Reverse(order)

\* the multimap key of a group
SortKey(groupPriority) == MaxPriority - groupPriority

\* an insert that puts the new element before the elements of equal key
RECURSIVE MultimapInsertBeforeEqual(_, _)
MultimapInsertBeforeEqual(mm, e) ==
    IF mm = <<>> THEN <<e>>
    ELSE IF e.key <= Head(mm).key THEN <<e>> \o mm
         ELSE <<Head(mm)>> \o MultimapInsertBeforeEqual(Tail(mm), e)

\* std::multimap::insert: after every element whose key is not greater
RECURSIVE MultimapInsert(_, _)
MultimapInsert(mm, e) ==
    IF mm = <<>> THEN <<e>>
    ELSE IF e.key < Head(mm).key THEN <<e>> \o mm
         ELSE <<Head(mm)>> \o MultimapInsert(Tail(mm), e)

\* for (i < NUM_VERTEX_GROUPS): topological order of each group, inserted
\* into VERTEX_GROUPS_SORTED; vs is vertex_states, shared by all groups
RECURSIVE SortGroups(_, _, _, _, _)
SortGroups(p, k, vs, sorted, M) ==
    IF k > Len(p.VERTEX_GROUPS) THEN sorted
    ELSE LET r == GroupDFS(p.VERTEX_GROUPS[k], 1, [vs |-> vs, out |-> <<>>], M)
             e == [key |-> SortKey(p.GROUP_PRIORITY[k]), order |-> GroupOrder(r.out)]
         IN  SortGroups(p, k + 1, r.vs, MultimapInsert(sorted, e), M)

VertexGroupsSorted(M, prio) ==
    SortGroups(Partition(M, prio), 1, [s \in Systems |-> 0], <<>>, M)

RECURSIVE Flatten(_)
Flatten(sorted) ==
    IF sorted = <<>> THEN <<>> ELSE Head(sorted).order \o Flatten(Tail(sorted))

\* the push_back loop without the clear()
RebuildWorkOrderNoClear(old, sorted) == old \o Flatten(sorted)

\* m_SystemWorkOrder.clear() followed by the push_back loop
RebuildWorkOrder(old, sorted) == Flatten(sorted)

UpdateSystemWorkOrder ==
    /\ ~failed
    /\ walk.kind = "none"
    /\ m_SystemWorkOrder' =
           RebuildWorkOrder(m_SystemWorkOrder,
                            VertexGroupsSorted(m_SystemDependencyMatrix, priority))
    /\ op' = [name |-> "UpdateSystemWorkOrder"]
    /\ UNCHANGED <<m_SystemDependencyMatrix, priority, frameVars, ecVars, failed>>

(***************************************************************************)
(* SystemManager::GetSystemWorkState / SetSystemWorkState                  *)
(***************************************************************************)
\* mask[i] = m_SystemWorkOrder[i]->IsActive()
WorkStateMask(wo, act) == [i \in 1 .. Len(wo) |-> act[wo[i]]]

\* the mask is returned to the caller; order is the Work Order it was taken
\* from (kept to state what a later SetSystemWorkState restores)
GetSystemWorkState ==
    /\ ~failed
    /\ walk.kind = "none"
    /\ snapshot' = [taken |-> TRUE,
                    mask |-> WorkStateMask(m_SystemWorkOrder, active),
                    order |-> m_SystemWorkOrder]
    /\ op' = [name |-> "GetSystemWorkState"]
    /\ UNCHANGED <<schedVars, active, walk, ecVars, failed>>

\* an assert that lets a longer mask through
MaskAtLeastFits(mask, wo) == Len(mask) >= Len(wo)

\* the condition of the assert
MaskFits(mask, wo) == Len(mask) = Len(wo)

\* a loop that sets the system with type id i, not the one at position i
RECURSIVE SetWorkStateLoopById(_, _, _, _)
SetWorkStateLoopById(act, wo, mask, i) ==
    IF i > Len(wo) THEN act
    ELSE SetWorkStateLoopById([act EXCEPT ![i - 1] = mask[i]], wo, mask, i + 1)

\* for (i < m_SystemWorkOrder.size()) m_SystemWorkOrder[i]->SetActive(mask[i])
RECURSIVE SetWorkStateLoop(_, _, _, _)
SetWorkStateLoop(act, wo, mask, i) ==
    IF i > Len(wo) THEN act
    ELSE SetWorkStateLoop([act EXCEPT ![wo[i]] = mask[i]], wo, mask, i + 1)

\* from names where the caller got the mask: "captured" is the mask the last
\* GetSystemWorkState returned, "other" any other boolean vector
SetSystemWorkState(mask, from) ==
    /\ ~failed
    /\ walk.kind = "none"
    /\ IF MaskFits(mask, m_SystemWorkOrder)
       THEN /\ active' = SetWorkStateLoop(active, m_SystemWorkOrder, mask, 1)
            /\ failed' = FALSE
       ELSE /\ active' = active
            /\ failed' = TRUE
    /\ op' = [name |-> "SetSystemWorkState", from |-> from, size |-> Len(mask)]
    /\ UNCHANGED <<schedVars, snapshot, walk, ecVars>>

(***************************************************************************)
(* ISystem::SetActive, called by the application between two passes.       *)
(***************************************************************************)
SetActive(s, b) ==
    /\ ~failed
    /\ walk.kind = "none"
    /\ active' = [active EXCEPT ![s] = b]
    /\ op' = [name |-> "SetActive"]
    /\ UNCHANGED <<schedVars, snapshot, walk, ecVars, failed>>

(***************************************************************************)
(* SystemManager::PreUpdate / Update / PostUpdate.  A pass is a walk over  *)
(* the Work Order; walk.pos is the 0-based position the range-for has      *)
(* reached and walk.calls the <<method, system>> calls it has made.        *)
(***************************************************************************)
NoWalk == [kind |-> "none", pos |-> 0, calls |-> <<>>]

BeginWalk(kind) ==
    /\ ~failed
    /\ walk.kind = "none"
    /\ walk' = [kind |-> kind, pos |-> 0, calls |-> <<>>]
    /\ op' = [name |-> kind]
    /\ UNCHANGED <<schedVars, active, snapshot, ecVars, failed>>

PreUpdate == BeginWalk("PreUpdate")

Update == BeginWalk("Update")

PostUpdate == BeginWalk("PostUpdate")

\* a pass that calls every system
ShouldCallAlways(act, system) == TRUE

\* if (system->IsActive() == true)
ShouldCall(act, system) == act[system] = TRUE

\* what the invoked pass method of a system may do to the active flags: it
\* leaves them alone, or calls SetActive(b) on one system t
CallbackEffects(act) ==
    {act} \cup {[act EXCEPT ![t] = b] : t \in Systems, b \in BOOLEAN}

\* one iteration of the range-for: test the flag, invoke the pass method
WalkStep ==
    /\ ~failed
    /\ walk.kind # "none"
    /\ walk.pos < Len(m_SystemWorkOrder)
    /\ LET system == m_SystemWorkOrder[walk.pos + 1]
       IN  IF ShouldCall(active, system)
           THEN /\ walk' = [walk EXCEPT !.pos = @ + 1,
                                        !.calls = Append(@, <<walk.kind, system>>)]
                /\ active' \in CallbackEffects(active)
           ELSE /\ walk' = [walk EXCEPT !.pos = @ + 1]
                /\ active' = active
    /\ op' = [name |-> "WalkStep"]
    /\ UNCHANGED <<schedVars, snapshot, ecVars, failed>>

\* the range-for has reached end(): the pass returns
EndWalk ==
    /\ ~failed
    /\ walk.kind # "none"
    /\ walk.pos >= Len(m_SystemWorkOrder)
    /\ walk' = NoWalk
    /\ op' = [name |-> "EndWalk"]
    /\ UNCHANGED <<schedVars, active, snapshot, ecVars, failed>>

(***************************************************************************)
(* EntityManager::EntityContainer<T>.  Addresses are counted in units of   *)
(* sizeof(T), so a chunk of ENITY_T_ALLOCATION_AMOUNT objects spans        *)
(* ALLOC_SIZE = ENITY_T_ALLOCATION_AMOUNT addresses, one per slot.         *)
(***************************************************************************)
\* entities per chunk, scaled down
ENITY_T_ALLOCATION_AMOUNT == 2
\* largest number of CreateEntity / DestroyEntity calls of a run
MaxCalls == 9

ALLOC_SIZE == ENITY_T_ALLOCATION_AMOUNT

Nullptr == 0

\* the n-th block handed out by the global memory manager: the blocks are
\* disjoint, with an address that belongs to no block before and after each
BlockAddress(n) == 1 + n * (ALLOC_SIZE + 1)

\* PoolAllocator over the block at first: every slot is free, lowest first
PoolAllocator(first) ==
    [first |-> first, free |-> [k \in 1 .. ENITY_T_ALLOCATION_AMOUNT |-> first + (k - 1)]]

\* PoolAllocator::allocate: the head of the free list, or null when exhausted
PoolAllocate(allocator) ==
    IF allocator.free = <<>>
    THEN [slot |-> Nullptr, allocator |-> allocator]
    ELSE [slot |-> Head(allocator.free),
          allocator |-> [allocator EXCEPT !.free = Tail(@)]]

\* PoolAllocator::free: the slot becomes the head of the free list
PoolFree(allocator, ptr) == [allocator EXCEPT !.free = <<ptr>> \o @]

\* EntityMemoryChunk::EntityMemoryChunk
EntityMemoryChunk(allocator) ==
    [allocator |-> allocator,
     entities |-> <<>>,
     chunkStart |-> allocator.first,
     chunkEnd |-> allocator.first + ALLOC_SIZE]

\* EntityContainer::EntityContainer when the memory manager has handed out
\* n blocks before: one chunk over the next block
EntityContainerAt(n) == <<EntityMemoryChunk(PoolAllocator(BlockAddress(n)))>>

\* EntityContainer::EntityContainer: one chunk over the first block
EntityContainer == EntityContainerAt(0)

\* if (chunk->entities.size() > ENITY_T_ALLOCATION_AMOUNT) continue;
ChunkSkipped(chunk) == Len(chunk.entities) > ENITY_T_ALLOCATION_AMOUNT

\* the for loop of CreateEntity from the k-th chunk on: the slot found (or
\* null) and the chunk list after the loop
RECURSIVE ScanChunks(_, _)
ScanChunks(chunks, k) ==
    IF k > Len(chunks) THEN [slot |-> Nullptr, chunks |-> chunks]
    ELSE IF ChunkSkipped(chunks[k]) THEN ScanChunks(chunks, k + 1)
    ELSE LET r == PoolAllocate(chunks[k].allocator)
         IN  IF r.slot # Nullptr
             THEN [slot |-> r.slot,
                   chunks |-> [chunks EXCEPT ![k] =
                                  [@ EXCEPT !.allocator = r.allocator,
                                            !.entities = Append(@, r.slot)]]]
             ELSE ScanChunks([chunks EXCEPT ![k].allocator = r.allocator], k + 1)

\* the new chunk over the block after the n handed out before, put in front,
\* and the slot taken from it
GrowChunksAt(chunks, n) ==
    LET newChunk == EntityMemoryChunk(PoolAllocator(BlockAddress(n)))
        r == PoolAllocate(newChunk.allocator)
    IN  [slot |-> r.slot,
         chunks |-> <<[newChunk EXCEPT !.allocator = r.allocator,
                                       !.entities = IF r.slot # Nullptr
                                                    THEN Append(@, r.slot) ELSE @]>>
                    \o chunks]

\* a container that is the only user of the memory manager
GrowChunks(chunks) == GrowChunksAt(chunks, Len(chunks))

\* the number of entities held by the entity lists of chunks
RECURSIVE EntityCount(_)
EntityCount(chunks) ==
    IF chunks = <<>> THEN 0
    ELSE Len(Head(chunks).entities) + EntityCount(Tail(chunks))

CreateEntity ==
    /\ ~failed
    /\ ~teardown.done
    /\ calls < MaxCalls
    /\ calls' = calls + 1
    /\ LET scan == ScanChunks(m_Chunks, 1)
           r == IF scan.slot # Nullptr THEN scan ELSE GrowChunks(scan.chunks)
       IN  /\ m_Chunks' = r.chunks
           /\ failed' = (r.slot = Nullptr)
           /\ destroyed' = destroyed \ {r.slot}
           /\ peak' = Max(peak, EntityCount(r.chunks))
           /\ op' = [name |-> "CreateEntity", slot |-> r.slot]
    /\ UNCHANGED <<smVars, teardown, emVars>>

\* a range test that takes chunkEnd for an address of the chunk
InChunkRangeInclusive(chunk, adr) == chunk.chunkStart <= adr /\ chunk.chunkEnd >= adr

\* if (chunk->chunkStart <= adr && chunk->chunkEnd > adr)
InChunkRange(chunk, adr) == chunk.chunkStart <= adr /\ chunk.chunkEnd > adr

\* the for loop of DestroyEntity: the position of the first chunk whose range
\* holds adr, 0 when the loop ends without one
RECURSIVE FindChunk(_, _, _)
FindChunk(chunks, adr, k) ==
    IF k > Len(chunks) THEN 0
    ELSE IF InChunkRange(chunks[k], adr) THEN k
    ELSE FindChunk(chunks, adr, k + 1)

\* std::list::remove: every element equal to value is erased
ListRemove(list, value) == SelectSeq(list, LAMBDA e : e # value)

\* the entity is taken off the list, the slot is not given back
ReleaseSlotNoFree(chunk, adr) == [chunk EXCEPT !.entities = ListRemove(@, adr)]

\* chunk->entities.remove((T*)entity); chunk->allocator->free(entity);
ReleaseSlot(chunk, adr) ==
    [chunk EXCEPT !.entities = ListRemove(@, adr),
                  !.allocator = PoolFree(@, adr)]

DestroyEntity(adr) ==
    /\ ~failed
    /\ ~teardown.done
    /\ calls < MaxCalls
    /\ calls' = calls + 1
    /\ LET k == FindChunk(m_Chunks, adr, 1)
       IN  IF k = 0
           THEN /\ failed' = TRUE
                /\ UNCHANGED <<m_Chunks, destroyed>>
           ELSE /\ m_Chunks' = [m_Chunks EXCEPT ![k] = ReleaseSlot(@, adr)]
                /\ destroyed' = destroyed \cup {adr}
                /\ failed' = FALSE
    /\ op' = [name |-> "DestroyEntity", adr |-> adr]
    /\ UNCHANGED <<smVars, peak, teardown, emVars>>

\* the steps ~EntityContainer takes, as [kind, at]: "~T" at an entity's
\* address; "clear", "Free", "delete allocator" and "delete chunk" at the
\* first address of a chunk
DestructorCalls(entities) == [n \in 1 .. Len(entities) |-> [kind |-> "~T", at |-> entities[n]]]

ChunkRelease(chunk) ==
    <<[kind |-> "clear", at |-> chunk.chunkStart],
      [kind |-> "Free", at |-> chunk.allocator.first],
      [kind |-> "delete allocator", at |-> chunk.chunkStart],
      [kind |-> "delete chunk", at |-> chunk.chunkStart]>>

\* a loop body that releases the chunk before it destructs the entities
ChunkTeardownReleaseFirst(chunk) == ChunkRelease(chunk) \o DestructorCalls(chunk.entities)

\* the body of the for loop over the chunks
ChunkTeardown(chunk) == DestructorCalls(chunk.entities) \o ChunkRelease(chunk)

\* for (auto chunk : this->m_Chunks)
RECURSIVE TeardownEvents(_)
TeardownEvents(chunks) ==
    IF chunks = <<>> THEN <<>>
    ELSE ChunkTeardown(Head(chunks)) \o TeardownEvents(Tail(chunks))

\* EntityContainer::~EntityContainer; the chunk list goes with the container
DestroyEntityContainer ==
    /\ ~failed
    /\ ~teardown.done
    /\ teardown' = [done |-> TRUE, events |-> TeardownEvents(m_Chunks)]
    /\ m_Chunks' = <<>>
    /\ op' = [name |-> "DestroyEntityContainer"]
    /\ UNCHANGED <<smVars, destroyed, calls, peak, emVars, failed>>

(***************************************************************************)
(* EntityManager: the registry of containers, the id table and the lookup  *)
(* table.                                                                  *)
(***************************************************************************)
\* number of entity types
NumEntityTypes == 2
\* largest number of EntityManager calls of a run
MaxManagerCalls == 6

EntityTypes == 0 .. (NumEntityTypes - 1)

\* no registry entry (m_EntityRegistry.find(EID) == end())
NoContainer == [serial |-> 0, chunks |-> <<>>]

\* INVALID_ENTITY_ID: a value no id that is ever issued can have
INVALID_ENTITY_ID == MaxManagerCalls + 1

\* the blocks the memory manager has handed out to the containers so far
RECURSIVE BlocksUpTo(_, _)
BlocksUpTo(registry, T) ==
    IF T < 0 THEN 0 ELSE Len(registry[T].chunks) + BlocksUpTo(registry, T - 1)

BlocksInUse(registry) == BlocksUpTo(registry, NumEntityTypes - 1)

\* the containers constructed so far are numbered 1, 2, ... in the order of
\* their construction; the number stands for the object's identity
RECURSIVE LastSerialUpTo(_, _)
LastSerialUpTo(registry, T) ==
    IF T < 0 THEN 0 ELSE Max(registry[T].serial, LastSerialUpTo(registry, T - 1))

NewContainer(registry) ==
    [serial |-> LastSerialUpTo(registry, NumEntityTypes - 1) + 1,
     chunks |-> EntityContainerAt(BlocksInUse(registry))]

\* a lookup that never finds the entry
RegistryMissesAlways(registry, T) == TRUE

\* it == this->m_EntityRegistry.end()
RegistryMisses(registry, T) == registry[T] = NoContainer

\* GetEntityContainer<T>: the registry after the call; the container is its
\* entry for T
GetEntityContainer(registry, T) ==
    IF RegistryMisses(registry, T)
    THEN [registry EXCEPT ![T] = NewContainer(registry)]
    ELSE registry

\* an id table that reuses the id that has waited longest
AqcuireEntityIdOldestFirst(lut, freeIds) ==
    IF freeIds # <<>>
    THEN [id |-> Back(freeIds), lut |-> lut, freeIds |-> PopBack(freeIds)]
    ELSE [id |-> Len(lut), lut |-> Append(lut, Nullptr), freeIds |-> freeIds]

\* AqcuireEntityId: the most recently released id if there is one, else the
\* next index of the lookup table, which grows by a null entry
AqcuireEntityId(lut, freeIds) ==
    IF freeIds # <<>>
    THEN [id |-> Head(freeIds), lut |-> lut, freeIds |-> Tail(freeIds)]
    ELSE [id |-> Len(lut), lut |-> Append(lut, Nullptr), freeIds |-> freeIds]

\* ReleaseEntityId: the id becomes the first candidate for reuse and its
\* lookup entry is null
ReleaseEntityId(lut, freeIds, id) ==
    [lut |-> [lut EXCEPT ![id + 1] = Nullptr], freeIds |-> <<id>> \o freeIds]

\* entity->m_Id = id
SetId(ids, entity, id) == (entity :> id) @@ ids

\* EntityManager::CreateEntity<T>
CreateEntityT(T) ==
    /\ ~failed
    /\ calls < MaxManagerCalls
    /\ calls' = calls + 1
    /\ LET registry == GetEntityContainer(m_EntityRegistry, T)
           scan == ScanChunks(registry[T].chunks, 1)
           r == IF scan.slot # Nullptr THEN scan
                ELSE GrowChunksAt(scan.chunks, BlocksInUse(registry))
           a == AqcuireEntityId(m_EntityLUT, m_FreeIds)
       IN  /\ m_EntityRegistry' = [registry EXCEPT ![T].chunks = r.chunks]
           /\ failed' = (r.slot = Nullptr)
           /\ IF r.slot = Nullptr
              THEN /\ UNCHANGED <<m_EntityLUT, m_FreeIds, m_Id>>
                   /\ op' = [name |-> "CreateEntityT", T |-> T, entity |-> Nullptr,
                             id |-> INVALID_ENTITY_ID]
              ELSE /\ m_EntityLUT' = a.lut
                   /\ m_FreeIds' = a.freeIds
                   /\ m_Id' = SetId(m_Id, r.slot, a.id)
                   /\ op' = [name |-> "CreateEntityT", T |-> T, entity |-> r.slot,
                             id |-> a.id]
    /\ UNCHANGED <<smVars, m_Chunks, destroyed, peak, teardown>>

\* EntityManager::DestroyEntity<T> on an entity of type T
DestroyEntityT(T, entity) ==
    /\ ~failed
    /\ calls < MaxManagerCalls
    /\ calls' = calls + 1
    /\ LET released == ReleaseEntityId(m_EntityLUT, m_FreeIds, m_Id[entity])
           registry == GetEntityContainer(m_EntityRegistry, T)
           k == FindChunk(registry[T].chunks, entity, 1)
       IN  /\ m_EntityLUT' = released.lut
           /\ m_FreeIds' = released.freeIds
           /\ IF k = 0
              THEN /\ failed' = TRUE
                   /\ m_EntityRegistry' = registry
              ELSE /\ failed' = FALSE
                   /\ m_EntityRegistry' =
                          [registry EXCEPT ![T].chunks[k] = ReleaseSlot(@, entity)]
           /\ op' = [name |-> "DestroyEntityT", T |-> T, entity |-> entity,
                     id |-> m_Id[entity]]
    /\ UNCHANGED <<smVars, m_Chunks, destroyed, peak, teardown, m_Id>>

\* a bound test that lets the index one past the end through
IdInTableInclusive(lut, id) == id # INVALID_ENTITY_ID /\ id <= Len(lut)

\* id != INVALID_ENTITY_ID && id < this->m_EntityLUT.size()
IdInTable(lut, id) == id # INVALID_ENTITY_ID /\ id < Len(lut)

\* this->m_EntityLUT[id]; past the end the read yields an arbitrary pointer
LutRead(lut, id) ==
    IF id < Len(lut) THEN {lut[id + 1]} ELSE {Nullptr, BlockAddress(0)}

\* EntityManager::GetEntity
GetEntity(id) ==
    /\ ~failed
    /\ calls < MaxManagerCalls
    /\ calls' = calls + 1
    /\ IF IdInTable(m_EntityLUT, id)
       THEN /\ failed' = FALSE
            /\ \E entity \in LutRead(m_EntityLUT, id) :
                   op' = [name |-> "GetEntity", id |-> id, entity |-> entity]
       ELSE /\ failed' = TRUE
            /\ op' = [name |-> "GetEntity", id |-> id, entity |-> Nullptr]
    /\ UNCHANGED <<smVars, m_Chunks, destroyed, peak, teardown, emVars>>

(***************************************************************************)
(* Initial states: the systems are registered, their dependencies and      *)
(* priorities are set, and the Work Order has not been computed yet.       *)
(***************************************************************************)
RECURSIVE CellSetsUpTo(_)
CellSetsUpTo(k) ==
    IF k = 0 THEN {{}}
    ELSE LET S == CellSetsUpTo(k - 1)
         IN  S \cup {E \cup {c} : E \in S, c \in Cells}

MatrixOf(E) == [i \in Systems |-> [j \in Systems |-> <<i, j>> \in E]]

Matrices == {MatrixOf(E) : E \in CellSetsUpTo(MaxEdges)}

\* what the constructors leave behind, whatever was registered
InitCommon ==
    /\ active = [s \in Systems |-> TRUE]
    /\ m_SystemWorkOrder = <<>>
    /\ snapshot = [taken |-> FALSE, mask |-> <<>>, order |-> <<>>]
    /\ walk = NoWalk
    /\ m_Chunks = EntityContainer
    /\ destroyed = {}
    /\ calls = 0
    /\ peak = 0
    /\ teardown = [done |-> FALSE, events |-> <<>>]
    /\ m_EntityRegistry = [T \in EntityTypes |-> NoContainer]
    /\ m_EntityLUT = <<>>
    /\ m_FreeIds = <<>>
    /\ m_Id = <<>>
    /\ failed = FALSE
    /\ op = [name |-> "Init"]

InitOrder ==
    /\ m_SystemDependencyMatrix \in Matrices
    /\ priority \in [Systems -> Priorities]
    /\ InitCommon

\* the masks that switch every system of the Work Order on, or off
UniformMasks == {[i \in 1 .. Len(m_SystemWorkOrder) |-> b] : b \in BOOLEAN}

NextOrder ==
    \/ UpdateSystemWorkOrder
    \/ \E mask \in UniformMasks : SetSystemWorkState(mask, "other")

SpecOrder == InitOrder /\ [][NextOrder]_vars

(***************************************************************************)
(* The frame specifications start from the registrations with at most      *)
(* FrameEdges dependencies and the default priority.                       *)
(***************************************************************************)
FrameEdges == 1

InitFrame ==
    /\ m_SystemDependencyMatrix \in {MatrixOf(E) : E \in CellSetsUpTo(FrameEdges)}
    /\ priority \in {[s \in Systems |-> LOWEST_SYSTEM_PRIORITY],
                      [s \in Systems |-> IF s = 0 THEN MaxPriority ELSE LOWEST_SYSTEM_PRIORITY]}
    /\ InitCommon

\* boolean vectors of every length up to one more than the Work Order can have
MaskInputs == UNION {[1 .. n -> BOOLEAN] : n \in 0 .. (NumSystems + 1)}

NextState ==
    \/ UpdateSystemWorkOrder
    \/ \E s \in Systems, b \in BOOLEAN : SetActive(s, b)
    \/ GetSystemWorkState
    \/ snapshot.taken /\ SetSystemWorkState(snapshot.mask, "captured")
    \/ \E mask \in MaskInputs : SetSystemWorkState(mask, "other")

SpecState == InitFrame /\ [][NextState]_vars

NextPass ==
    \/ UpdateSystemWorkOrder
    \/ \E s \in Systems, b \in BOOLEAN : SetActive(s, b)
    \/ PreUpdate
    \/ Update
    \/ PostUpdate
    \/ WalkStep
    \/ EndWalk

SpecPass == InitFrame /\ [][NextPass]_vars

(***************************************************************************)
(* The container specification: one entity type, no system registered      *)
(* with a dependency.  The pointers a caller hands to DestroyEntity are    *)
(* the ones CreateEntity returned to it, whether the entity is still live  *)
(* or was destroyed already, and addresses that belong to no chunk (null,  *)
(* an object that is no entity of this container).                         *)
(***************************************************************************)
InitContainer ==
    /\ m_SystemDependencyMatrix = MatrixOf({})
    /\ priority = [s \in Systems |-> LOWEST_SYSTEM_PRIORITY]
    /\ InitCommon

ChunkIndices == 1 .. Len(m_Chunks)

\* the addresses held by the entity lists
LiveAddresses == UNION {Range(m_Chunks[k].entities) : k \in ChunkIndices}

\* the chunks whose range [chunkStart, chunkEnd) holds adr
OwnersOf(adr) ==
    {k \in ChunkIndices : m_Chunks[k].chunkStart <= adr /\ adr < m_Chunks[k].chunkEnd}

\* null and the addresses just below and just above each chunk
ForeignAddresses ==
    {Nullptr} \cup {m_Chunks[k].chunkStart - 1 : k \in ChunkIndices}
              \cup {m_Chunks[k].chunkEnd : k \in ChunkIndices}

CallerPointers == LiveAddresses \cup destroyed \cup ForeignAddresses

NextContainer ==
    \/ CreateEntity
    \/ \E adr \in CallerPointers : DestroyEntity(adr)
    \/ DestroyEntityContainer

SpecContainer == InitContainer /\ [][NextContainer]_vars

(***************************************************************************)
(* The container used as its contract asks: DestroyEntity is only called   *)
(* on entities that are live.                                              *)
(***************************************************************************)
NextLive ==
    \/ CreateEntity
    \/ \E adr \in LiveAddresses : DestroyEntity(adr)

SpecLive == InitContainer /\ [][NextLive]_vars

(***************************************************************************)
(* The manager specification: entities of NumEntityTypes types are created *)
(* and destroyed through the EntityManager.  The pointers a caller hands   *)
(* to DestroyEntity<T> are the ones CreateEntity<T> returned to it,        *)
(* whether the entity is still live or was destroyed already.              *)
(***************************************************************************)
\* the type of the entity a pointer was handed out for
PointerType(entity) ==
    CHOOSE T \in EntityTypes :
        \E k \in 1 .. Len(m_EntityRegistry[T].chunks) :
            InChunkRange(m_EntityRegistry[T].chunks[k], entity)

\* the ids a caller may look up: every issued id, the one after them and
\* the invalid id
IdInputs == (0 .. Len(m_EntityLUT)) \cup {INVALID_ENTITY_ID}

NextManager ==
    \/ \E T \in EntityTypes : CreateEntityT(T)
    \/ \E entity \in DOMAIN m_Id : DestroyEntityT(PointerType(entity), entity)
    \/ \E id \in IdInputs : GetEntity(id)

SpecManager == InitContainer /\ [][NextManager]_vars

(***************************************************************************)
(* Graph notions the properties are stated with; none is used by the       *)
(* actions.                                                                *)
(***************************************************************************)
\* <<i, j>>: system i must run after system j
DependencyPairs == {c \in Cells : m_SystemDependencyMatrix[c[1]][c[2]]}

RECURSIVE TransitiveClosure(_)
TransitiveClosure(R) ==
    LET S == R \cup {<<x[1][1], x[2][2]>> : x \in {y \in R \X R : y[1][2] = y[2][1]}}
    IN  IF S = R THEN R ELSE TransitiveClosure(S)

Acyclic == \A s \in Systems : <<s, s>> \notin TransitiveClosure(DependencyPairs)

UndirectedPairs == DependencyPairs \cup {<<c[2], c[1]>> : c \in DependencyPairs}

\* the dependency group of every system: the systems joined to it by a path
\* of dependencies taken in either direction
Groups ==
    LET joined == TransitiveClosure(UndirectedPairs)
    IN  [x \in Systems |-> {y \in Systems : x = y \/ <<x, y>> \in joined}]

\* the maximum SystemPriority among the systems of G
MaxPriorityIn(G) ==
    CHOOSE p \in Priorities :
        /\ \E y \in G : priority[y] = p
        /\ \A y \in G : priority[y] <= p

\* x occupies an earlier position of the Work Order than y
Before(x, y) ==
    \E p, q \in 1 .. Len(m_SystemWorkOrder) :
        p < q /\ m_SystemWorkOrder[p] = x /\ m_SystemWorkOrder[q] = y

\* the Work Order is the one the last UpdateSystemWorkOrder computed
Ordered == Len(m_SystemWorkOrder) > 0

(***************************************************************************)
(* C1: for an acyclic dependency matrix, after UpdateSystemWorkOrder every *)
(* system j that system i must run after (M[i][j]) stands at an earlier    *)
(* position of the Work Order than i.                                      *)
(***************************************************************************)
C1_RunAfterHonoured ==
    (op.name = "UpdateSystemWorkOrder" /\ Acyclic) =>
        \A i, j \in Systems : m_SystemDependencyMatrix[i][j] => Before(j, i)

\* A = 0 and C = 2 both run after B = 1, and B precedes both
C1_Witness ==
    /\ op.name = "UpdateSystemWorkOrder"
    /\ DependencyPairs = {<<0, 1>>, <<2, 1>>}
    /\ Before(1, 0)
    /\ Before(1, 2)

(***************************************************************************)
(* C2: after UpdateSystemWorkOrder, a system whose group has the strictly  *)
(* greater group priority precedes every system of a different group of    *)
(* lower group priority, whatever their type ids and own priorities.       *)
(***************************************************************************)
C2_HigherGroupFirst ==
    op.name = "UpdateSystemWorkOrder" =>
        LET group == Groups
            groupPriority == [x \in Systems |-> MaxPriorityIn(group[x])]
        IN  \A x, y \in Systems :
                (y \notin group[x] /\ groupPriority[x] > groupPriority[y])
                    => Before(x, y)

\* x = 0 has the lowest priority and the lowest type id, its group is found
\* last, and it still precedes y = 2 because its group member 1 outranks 2
C2_Witness ==
    /\ op.name = "UpdateSystemWorkOrder"
    /\ Groups[0] = {0, 1}
    /\ priority[0] < priority[2]
    /\ priority[2] < priority[1]
    /\ Before(0, 2)

(***************************************************************************)
(* C3: the partitioning step seeds its groups from the back of the index   *)
(* array, and two groups of equal group priority stand in the Work Order   *)
(* in the order in which the partitioning step discovered them.            *)
(***************************************************************************)
C3_EqualPriorityKeepsDiscoveryOrder ==
    op.name = "UpdateSystemWorkOrder" =>
        LET p == Partition(m_SystemDependencyMatrix, priority)
        IN  \A a, b \in 1 .. Len(p.VERTEX_GROUPS) :
                a < b =>
                    /\ \A y \in Range(p.VERTEX_GROUPS[b]) : p.VERTEX_GROUPS[a][1] > y
                    /\ p.GROUP_PRIORITY[a] = p.GROUP_PRIORITY[b] =>
                           \A x \in Range(p.VERTEX_GROUPS[a]),
                              y \in Range(p.VERTEX_GROUPS[b]) : Before(x, y)

\* three groups {2}, {1}, {0}: the last one is moved to the front by its
\* priority, the two equal ones keep their order 2, 1
C3_Witness ==
    /\ op.name = "UpdateSystemWorkOrder"
    /\ DependencyPairs = {}
    /\ priority[0] > priority[1]
    /\ priority[1] = priority[2]
    /\ Before(0, 2)
    /\ Before(2, 1)

(***************************************************************************)
(* C4: an UpdateSystemWorkOrder call made when the Work Order was already  *)
(* computed from the same matrix and priorities leaves the Work Order      *)
(* exactly as it was, whatever the active flags are.                       *)
(***************************************************************************)
C4_UpdateIdempotent ==
    [][(op'.name = "UpdateSystemWorkOrder" /\ Ordered
            /\ m_SystemDependencyMatrix' = m_SystemDependencyMatrix
            /\ priority' = priority)
        => m_SystemWorkOrder' = m_SystemWorkOrder]_vars

\* a second call, made after every system was switched off, has left a
\* three-element Work Order in place
C4_Witness ==
    /\ op.name = "UpdateSystemWorkOrder"
    /\ \A s \in Systems : ~active[s]
    /\ Len(m_SystemWorkOrder) = NumSystems
    /\ DependencyPairs # {}

(***************************************************************************)
(* C5: every iteration of a pass invokes the system at the position the    *)
(* walk has reached exactly when that system's active flag is true at that *)
(* moment, and moves on by one position; the calls of a pass follow the    *)
(* Work Order; neither a pass nor SetActive changes the Work Order.        *)
(***************************************************************************)
CallsFollowWorkOrder ==
    /\ \A a, b \in 1 .. Len(walk.calls) :
           a < b => Before(walk.calls[a][2], walk.calls[b][2])
    /\ \A a \in 1 .. Len(walk.calls) :
           /\ walk.calls[a][1] = walk.kind
           /\ \E q \in 1 .. walk.pos : m_SystemWorkOrder[q] = walk.calls[a][2]

CalledSystems == {walk.calls[a][2] : a \in 1 .. Len(walk.calls)}

C5_PassCallsActiveInOrder ==
    [][/\ op'.name = "WalkStep" =>
            LET system == m_SystemWorkOrder[walk.pos + 1]
            IN  /\ walk'.pos = walk.pos + 1
                /\ walk'.kind = walk.kind
                /\ walk'.calls = IF active[system]
                                 THEN Append(walk.calls, <<walk.kind, system>>)
                                 ELSE walk.calls
                /\ CallsFollowWorkOrder'
       /\ op'.name \in {"PreUpdate", "Update", "PostUpdate", "WalkStep", "EndWalk", "SetActive"}
            => m_SystemWorkOrder' = m_SystemWorkOrder]_vars

\* a finished Update walk over three systems: a system that was inactive when
\* the walk reached it got no call although it is active again now, and a
\* system that was called has been switched off since
C5_Witness ==
    /\ walk.kind = "Update"
    /\ walk.pos = NumSystems
    /\ \E s \in Systems : active[s] /\ s \notin CalledSystems
    /\ \E t \in Systems : ~active[t] /\ t \in CalledSystems

(***************************************************************************)
(* C9: SetSystemWorkState applied to the captured mask while the Work      *)
(* Order is still the one the mask was captured from does not fail and     *)
(* sets the flag of the system at every position to the captured value;    *)
(* applied right after the capture it changes no flag.                     *)
(***************************************************************************)
C9_MaskRoundTrip ==
    [][(op'.name = "SetSystemWorkState" /\ op'.from = "captured"
            /\ snapshot.order = m_SystemWorkOrder)
        => /\ ~failed'
           /\ \A i \in 1 .. Len(m_SystemWorkOrder) :
                  active'[m_SystemWorkOrder[i]] = snapshot.mask[i]
           /\ op.name = "GetSystemWorkState" => active' = active]_vars

\* a mixed mask was put back onto a Work Order that is not in type-id order
C9_Witness ==
    /\ op.name = "SetSystemWorkState"
    /\ op.from = "captured"
    /\ snapshot.order = m_SystemWorkOrder
    /\ Len(m_SystemWorkOrder) = NumSystems
    /\ m_SystemWorkOrder[1] # 0
    /\ snapshot.mask[1] /\ ~snapshot.mask[2]
    /\ \A i \in 1 .. NumSystems : active[m_SystemWorkOrder[i]] = snapshot.mask[i]

(***************************************************************************)
(* C10: SetSystemWorkState with a mask whose length differs from the Work  *)
(* Order's fails and changes no active flag; with a mask of equal length   *)
(* it does not fail.                                                       *)
(***************************************************************************)
C10_MaskLengthChecked ==
    [][op'.name = "SetSystemWorkState" =>
          IF op'.size # Len(m_SystemWorkOrder)
          THEN failed' /\ active' = active
          ELSE ~failed']_vars

\* a mask one element too long for a computed Work Order was refused while
\* some system was inactive
C10_Witness ==
    /\ failed
    /\ op.name = "SetSystemWorkState"
    /\ Len(m_SystemWorkOrder) = NumSystems
    /\ op.size = NumSystems + 1
    /\ \E s \in Systems : ~active[s]

(***************************************************************************)
(* C6: no two live entities occupy the same slot, and the address of every *)
(* live entity lies in the range of exactly one chunk, the chunk whose     *)
(* entity list holds it.  A live entity is an element of an entity list.   *)
(***************************************************************************)
LiveEntities ==
    {e \in ChunkIndices \X (1 .. MaxCalls) :
        e[2] <= Len(m_Chunks[e[1]].entities)}

AddressOf(e) == m_Chunks[e[1]].entities[e[2]]

C6_LiveEntitiesDisjointAndOwned ==
    /\ \A e1, e2 \in LiveEntities : e1 # e2 => AddressOf(e1) # AddressOf(e2)
    /\ \A e \in LiveEntities : OwnersOf(AddressOf(e)) = {e[1]}

(***************************************************************************)
(* C7: DestroyEntity on a pointer that was destroyed already and not       *)
(* handed out again since fails, and hands nothing to any allocator.       *)
(***************************************************************************)
C7_DoubleFreeDetected ==
    [][(op'.name = "DestroyEntity" /\ op'.adr \in destroyed)
        => /\ failed'
           /\ \A k \in ChunkIndices : m_Chunks'[k].allocator = m_Chunks[k].allocator]_vars

(***************************************************************************)
(* C8: DestroyEntity with an address in no chunk's range fails and leaves  *)
(* every chunk as it was; with an address in a chunk's range it does not   *)
(* fail, exactly one chunk owns the address, that chunk's entity list      *)
(* loses the address and its allocator gets the slot back, and every other *)
(* chunk is left as it was.                                                *)
(***************************************************************************)
C8_DestroyRoutedByRange ==
    [][op'.name = "DestroyEntity" =>
          LET adr == op'.adr
              owners == OwnersOf(adr)
          IN  IF owners = {}
              THEN failed' /\ m_Chunks' = m_Chunks
              ELSE /\ ~failed'
                   /\ Cardinality(owners) = 1
                   /\ Len(m_Chunks') = Len(m_Chunks)
                   /\ \A k \in ChunkIndices :
                          IF k \in owners
                          THEN /\ m_Chunks'[k].entities =
                                      SelectSeq(m_Chunks[k].entities, LAMBDA e : e # adr)
                               /\ m_Chunks'[k].allocator.free =
                                      <<adr>> \o m_Chunks[k].allocator.free
                               /\ m_Chunks'[k].chunkStart = m_Chunks[k].chunkStart
                               /\ m_Chunks'[k].chunkEnd = m_Chunks[k].chunkEnd
                          ELSE m_Chunks'[k] = m_Chunks[k]]_vars

\* an entity of the older of two chunks was destroyed while the newer chunk,
\* which is searched first, holds entities: the older chunk alone got the slot
C8_Witness ==
    /\ op.name = "DestroyEntity"
    /\ ~failed
    /\ Len(m_Chunks) = 2
    /\ OwnersOf(op.adr) = {2}
    /\ m_Chunks[1].entities # <<>>
    /\ Head(m_Chunks[2].allocator.free) = op.adr
    /\ Len(m_Chunks[2].entities) = ENITY_T_ALLOCATION_AMOUNT - 1

(***************************************************************************)
(* C11: no two live entities carry the same EntityId.  A live entity is an *)
(* element of the entity list of a chunk of a registered container; the id *)
(* it carries is the m_Id of the object at its address.                    *)
(***************************************************************************)
ManagedEntities ==
    {e \in EntityTypes \X (1 .. MaxManagerCalls) \X (1 .. MaxManagerCalls) :
        /\ e[2] <= Len(m_EntityRegistry[e[1]].chunks)
        /\ e[3] <= Len(m_EntityRegistry[e[1]].chunks[e[2]].entities)}

ManagedAddress(e) == m_EntityRegistry[e[1]].chunks[e[2]].entities[e[3]]

C11_LiveIdsUnique ==
    \A e1, e2 \in ManagedEntities :
        e1 # e2 => m_Id[ManagedAddress(e1)] # m_Id[ManagedAddress(e2)]

(***************************************************************************)
(* C12: a CreateEntity<T> made while released ids wait for reuse gives the *)
(* new entity the id released most recently among them (the one released   *)
(* by the preceding call, when that call was a DestroyEntity<T>), and the  *)
(* others keep their order; a never-issued id, the next index of the       *)
(* lookup table, is handed out only when no released id waits.  A          *)
(* DestroyEntity<T> puts the id of its entity in front of the waiting ids. *)
(***************************************************************************)
C12_MostRecentlyReleasedFirst ==
    [][/\ (op'.name = "CreateEntityT" /\ ~failed') =>
            /\ m_Id'[op'.entity] = op'.id
            /\ IF m_FreeIds # <<>>
               THEN /\ op'.id = Head(m_FreeIds)
                    /\ m_FreeIds' = Tail(m_FreeIds)
                    /\ Len(m_EntityLUT') = Len(m_EntityLUT)
                    /\ op.name = "DestroyEntityT" => op'.id = op.id
               ELSE /\ op'.id = Len(m_EntityLUT)
                    /\ Len(m_EntityLUT') = Len(m_EntityLUT) + 1
                    /\ \A entity \in DOMAIN m_Id : m_Id[entity] # op'.id
                    /\ m_FreeIds' = <<>>
       /\ op'.name = "DestroyEntityT" =>
            m_FreeIds' = <<m_Id[op'.entity]>> \o m_FreeIds]_vars

\* ids 0 and 1 were released in this order and the next entity got id 1,
\* while id 0 still waits
C12_Witness ==
    /\ op.name = "CreateEntityT"
    /\ ~failed
    /\ op.id = 1
    /\ m_FreeIds = <<0>>
    /\ Len(m_EntityLUT) = 2

(***************************************************************************)
(* C13: GetEntity(id) fails when id is the invalid id or is not below the  *)
(* size of the lookup table; for every other id it does not fail and       *)
(* returns the entry of the table at index id.  It never changes the       *)
(* table.                                                                  *)
(***************************************************************************)
C13_GetEntityChecked ==
    [][op'.name = "GetEntity" =>
          /\ m_EntityLUT' = m_EntityLUT
          /\ IF op'.id = INVALID_ENTITY_ID \/ op'.id >= Len(m_EntityLUT)
             THEN failed'
             ELSE /\ ~failed'
                  /\ op'.entity = m_EntityLUT[op'.id + 1]]_vars

\* the id one past the last issued one was refused while ids were issued
C13_Witness ==
    /\ op.name = "GetEntity"
    /\ failed
    /\ Len(m_EntityLUT) = 2
    /\ op.id = Len(m_EntityLUT)

(***************************************************************************)
(* C14: a registry entry, once made, is never removed and never replaced   *)
(* by another container; an entry is made only by a CreateEntity<T> or     *)
(* DestroyEntity<T> call for its own type, with a container that is no     *)
(* other type's; after such a call the entry for T exists.                 *)
(***************************************************************************)
C14_OneContainerPerType ==
    [][\A T \in EntityTypes :
          /\ m_EntityRegistry[T] # NoContainer =>
                 m_EntityRegistry'[T].serial = m_EntityRegistry[T].serial
          /\ (m_EntityRegistry[T] = NoContainer /\ m_EntityRegistry'[T] # NoContainer) =>
                 /\ op'.name \in {"CreateEntityT", "DestroyEntityT"}
                 /\ op'.T = T
                 /\ \A U \in EntityTypes :
                        m_EntityRegistry'[T].serial # m_EntityRegistry[U].serial
          /\ (op'.name \in {"CreateEntityT", "DestroyEntityT"} /\ op'.T = T) =>
                 m_EntityRegistry'[T] # NoContainer]_vars

\* both types have their container, and the one made first has served a
\* second CreateEntity<T>, which found it holding the first entity
C14_Witness ==
    /\ op.name = "CreateEntityT"
    /\ ~failed
    /\ m_EntityRegistry[op.T].serial = 1
    /\ \A T \in EntityTypes : m_EntityRegistry[T] # NoContainer
    /\ EntityCount(m_EntityRegistry[op.T].chunks) = 2

(***************************************************************************)
(* C15: CreateEntity takes its slot from the first chunk of the list, the  *)
(* newest first, whose allocator still has a free slot, and then the       *)
(* number of chunks stays; only when no chunk has a free slot it puts a    *)
(* new chunk in front of the others and takes the slot from it.            *)
(***************************************************************************)
ChunksWithFreeSlot == {k \in ChunkIndices : m_Chunks[k].allocator.free # <<>>}

FirstOf(S) == CHOOSE k \in S : \A j \in S : k <= j

C15_FirstChunkWithFreeSlot ==
    [][op'.name = "CreateEntity" =>
          IF ChunksWithFreeSlot # {}
          THEN LET k == FirstOf(ChunksWithFreeSlot)
               IN  /\ Len(m_Chunks') = Len(m_Chunks)
                   /\ op'.slot = Head(m_Chunks[k].allocator.free)
                   /\ m_Chunks'[k].entities = Append(m_Chunks[k].entities, op'.slot)
          ELSE /\ Len(m_Chunks') = Len(m_Chunks) + 1
               /\ \A k \in ChunkIndices :
                      m_Chunks'[k + 1].entities = m_Chunks[k].entities
               /\ m_Chunks'[1].entities = <<op'.slot>>
               /\ InChunkRange(m_Chunks'[1], op'.slot)]_vars

(***************************************************************************)
(* C16: the groups of the partitioning step are the weakly connected       *)
(* components of the dependency matrix: every group holds exactly the      *)
(* systems joined to its seed by a path of dependencies in either          *)
(* direction, every system is in exactly one group, no dependency joins    *)
(* two groups, and in the Work Order no system of another group stands     *)
(* between two systems of one group.                                       *)
(***************************************************************************)
C16_GroupsAreWeakComponents ==
    op.name = "UpdateSystemWorkOrder" =>
        LET p == Partition(m_SystemDependencyMatrix, priority)
            group == Groups
            groupsOf(x) == {k \in 1 .. Len(p.VERTEX_GROUPS) :
                              \E n \in 1 .. Len(p.VERTEX_GROUPS[k]) :
                                  p.VERTEX_GROUPS[k][n] = x}
        IN  /\ \A k \in 1 .. Len(p.VERTEX_GROUPS) :
                   /\ Range(p.VERTEX_GROUPS[k]) = group[p.VERTEX_GROUPS[k][1]]
                   /\ Len(p.VERTEX_GROUPS[k]) = Cardinality(Range(p.VERTEX_GROUPS[k]))
            /\ \A x \in Systems : Cardinality(groupsOf(x)) = 1
            /\ \A c \in DependencyPairs : groupsOf(c[1]) = groupsOf(c[2])
            /\ \A a, b, c \in 1 .. Len(m_SystemWorkOrder) :
                   (a < b /\ b < c
                        /\ m_SystemWorkOrder[c] \in group[m_SystemWorkOrder[a]])
                    => m_SystemWorkOrder[b] \in group[m_SystemWorkOrder[a]]

\* systems 0 and 2 are joined only through system 1, whose dependency on 0
\* runs against the one 2 has on it; 0, 1 and 2 form one group
C16_Witness ==
    /\ op.name = "UpdateSystemWorkOrder"
    /\ DependencyPairs = {<<1, 0>>, <<1, 2>>}
    /\ Len(Partition(m_SystemDependencyMatrix, priority).VERTEX_GROUPS) = 1
    /\ Len(m_SystemWorkOrder) = NumSystems

(***************************************************************************)
(* C17: whatever the dependency matrix holds, cycles and self-loops        *)
(* included, the Work Order UpdateSystemWorkOrder leaves behind holds      *)
(* every system exactly once.                                              *)
(***************************************************************************)
C17_WorkOrderIsTotal ==
    op.name = "UpdateSystemWorkOrder" =>
        /\ Len(m_SystemWorkOrder) = NumSystems
        /\ \A x \in Systems :
               Cardinality({q \in 1 .. Len(m_SystemWorkOrder) :
                               m_SystemWorkOrder[q] = x}) = 1

\* systems 0 and 1 each run after the other; the Work Order still holds 0,
\* 1 and 2 once each
C17_Witness ==
    /\ op.name = "UpdateSystemWorkOrder"
    /\ DependencyPairs = {<<0, 1>>, <<1, 0>>}
    /\ Range(m_SystemWorkOrder) = Systems
    /\ Len(m_SystemWorkOrder) = NumSystems

(***************************************************************************)
(* C18: no chunk's entity list holds more entities than the chunk has      *)
(* slots, ENITY_T_ALLOCATION_AMOUNT.                                       *)
(***************************************************************************)
C18_ChunkWithinCapacity ==
    \A k \in ChunkIndices : Len(m_Chunks[k].entities) <= ENITY_T_ALLOCATION_AMOUNT

(***************************************************************************)
(* C19: ~EntityContainer invokes the destructor of every element of every  *)
(* chunk's entity list once, and of nothing else (an entity DestroyEntity  *)
(* has removed gets no call); the calls for a chunk's entities come before *)
(* the chunk's memory and allocator are released; every chunk's memory,    *)
(* allocator and the chunk itself are released once.                       *)
(***************************************************************************)
EventsAt(events, kind, at) ==
    {n \in 1 .. Len(events) : events[n].kind = kind /\ events[n].at = at}

C19_TeardownDestructsResidents ==
    [][op'.name = "DestroyEntityContainer" =>
          LET events == teardown'.events
              dtors == SelectSeq(events, LAMBDA e : e.kind = "~T")
              entitiesOf(k) == m_Chunks[k].entities
              dtorsOf(k) == SelectSeq(dtors, LAMBDA e : InChunkRange(m_Chunks[k], e.at))
          IN  /\ teardown'.done
              /\ Len(dtors) = EntityCount(m_Chunks)
              /\ \A k \in ChunkIndices :
                     /\ Len(dtorsOf(k)) = Len(entitiesOf(k))
                     /\ \A n \in 1 .. Len(entitiesOf(k)) : dtorsOf(k)[n].at = entitiesOf(k)[n]
                     /\ \A kind \in {"Free", "delete allocator", "delete chunk"} :
                            /\ Cardinality(EventsAt(events, kind, m_Chunks[k].chunkStart)) = 1
                            /\ \A r \in EventsAt(events, kind, m_Chunks[k].chunkStart) :
                                   \A n \in 1 .. Len(events) :
                                       (events[n].kind = "~T"
                                            /\ InChunkRange(m_Chunks[k], events[n].at))
                                        => n < r
              /\ \A adr \in destroyed \ LiveAddresses :
                     \A n \in 1 .. Len(dtors) : dtors[n].at # adr]_vars

\* two chunks were torn down, each with a resident entity, and an entity
\* that had been destroyed before was left alone
C19_Witness ==
    /\ teardown.done
    /\ Cardinality({n \in 1 .. Len(teardown.events) : teardown.events[n].kind = "Free"}) = 2
    /\ \E n \in 1 .. Len(teardown.events) :
           teardown.events[n].kind = "~T" /\ teardown.events[n].at = BlockAddress(0)
    /\ \E n \in 1 .. Len(teardown.events) :
           teardown.events[n].kind = "~T" /\ teardown.events[n].at = BlockAddress(1)
    /\ destroyed # {}
    /\ \A adr \in destroyed :
           \A n \in 1 .. Len(teardown.events) : teardown.events[n].at # adr

(***************************************************************************)
(* C20: while DestroyEntity is only called on live entities, the container *)
(* has max(1, ceil(P / capacity)) chunks, P being the largest number of    *)
(* entities that were live at the same time so far.                        *)
(***************************************************************************)
CeilDiv(a, b) == (a + b - 1) \div b

C20_ChunksFollowPeak ==
    /\ peak >= EntityCount(m_Chunks)
    /\ Len(m_Chunks) = Max(1, CeilDiv(peak, ENITY_T_ALLOCATION_AMOUNT))

\* the container grew to two chunks, entities were destroyed, and a
\* CreateEntity below the earlier peak has found a freed slot
C20_Witness ==
    /\ op.name = "CreateEntity"
    /\ peak = ENITY_T_ALLOCATION_AMOUNT + 1
    /\ EntityCount(m_Chunks) < peak
    /\ Len(m_Chunks) = 2
====
